---- MODULE Spec2Model ----
(***************************************************************************)
(* DoorPi: the snapshot actions (doorpi/actions/snapshot.py) and the       *)
(* PJSUA2 event helper (doorpi/sipphone/from_pjsua2/__init__.py).          *)
(*                                                                         *)
(* Snapshot part: a snapshot directory (fs), the configuration keys        *)
(* snapshot_keep, snapshot_path, last_snapshot, and threads that invoke    *)
(* the public operations of SnapshotAction and its two subclasses.  Every  *)
(* filesystem call, clock read and configuration access is one atomic      *)
(* step of the calling thread; the wall clock is an input of the step      *)
(* that reads it.                                                          *)
(*                                                                         *)
(* Event part: callers of fire_event, the event handler                    *)
(* (doorpi.INSTANCE.event_handler) with its asynchronous handler threads.  *)
(***************************************************************************)
EXTENDS Integers, Sequences, FiniteSets, TLC

VARIABLES
    fs,             \* snapshot directory: file name -> directory entry
    baseExists,     \* does the snapshot directory exist
    snapshot_keep,  \* config [DoorPi] snapshot_keep
    snapshot_path,  \* config [DoorPi] snapshot_path ("" when unset)
    last_snapshot,  \* config [DoorPi] last_snapshot
    thr,            \* per snapshot thread: position, locals, call history
    calls,          \* the number of operations the threads have entered
    modules,        \* the Python modules that can be imported
    instances,      \* per snapshot action: "none", constructed ("ok"), or the
                    \* exception its constructor raised
    hist,           \* history, kept in the one-thread specification only: the
                    \* directory when the running operation (or its cleanup)
                    \* began, whether the operation before was a cleanup, the
                    \* files that cleanup could not delete; kept in the
                    \* specification of the captures only: the directory when
                    \* the running operation was entered, and the seconds
                    \* and paths of the get_next_path calls so far
    ev,             \* per fire_event caller: position and locals
    tasks,          \* handler threads started by the asynchronous fire
    fired,          \* log of the event handler: the fires it was asked for by
                    \* the calls of fire_event that are going on
    ran             \* log of the event handler: the handler executions for them

vars == <<fs, baseExists, snapshot_keep, snapshot_path, last_snapshot,
          thr, calls, modules, instances, hist, ev, tasks, fired, ran>>

snapVars == <<fs, baseExists, snapshot_keep, snapshot_path, last_snapshot, thr, calls,
              modules, instances, hist>>
eventVars == <<ev, tasks, fired, ran>>

-----------------------------------------------------------------------------
(* Bounds *)

\* snapshot threads
NumThreads == 2
\* operations the snapshot threads enter, all threads together
MaxOps == 2
\* the clock reads seconds 0..MaxSecond
MaxSecond == 1
\* snapshot_keep is -1..MaxKeep
MaxKeep == 2
\* calls of fire_event
MaxCalls == 2
\* handlers registered for an event
NumHandlers == 2

Threads == 1..NumThreads
\* fire_event is called by the one worker thread of the module
Callers == {1}

-----------------------------------------------------------------------------
(* File names: strings as sequences of character codes *)

\* clock ticks per second: the clock is finer than the "%S" of the file name
TicksPerSecond == 2

\* str comparison of Python: by code point, a proper prefix sorts first
LexLess(a, b) ==
    \E i \in 1..(Len(b)) :
        /\ \A k \in 1..(i - 1) : k <= Len(a) /\ a[k] = b[k]
        /\ \/ i > Len(a)
           \/ i <= Len(a) /\ a[i] < b[i]

\* mutant: the name has the fraction of the second too
Strftime_Subsecond(t) ==
    LET sec == t \div TicksPerSecond
    IN  <<48 + ((sec \div 10) % 10), 48 + (sec % 10), 48 + (t % TicksPerSecond),
          46, 106, 112, 103>>

\* datetime.now().strftime("...%S.jpg"): the clock reading truncated to whole
\* seconds, zero padded to a fixed width, plus the extension
Strftime(t) ==
    LET sec == t \div TicksPerSecond
    IN  <<48 + ((sec \div 10) % 10), 48 + (sec % 10), 46, 106, 112, 103>>

\* the clock readings of the model
LastTick == (MaxSecond + 1) * TicksPerSecond - 1

TimeNames == {Strftime(t) : t \in 0..LastTick}
\* entries of the directory that are no snapshots: "z" and "d"
OtherNames == {<<122>>, <<100>>}
Names == TimeNames \cup OtherNames

\* a directory entry: nothing, a subdirectory, or a regular file, which is
\* complete once a writer has written it to the end
NoEntry == [kind |-> "none", complete |-> FALSE]
DirEntry == [kind |-> "dir", complete |-> FALSE]
OldFile == [kind |-> "file", complete |-> TRUE]
NewFile(done) == [kind |-> "file", complete |-> done]

Present(d) == {n \in Names : d[n].kind # "none"}
RegularFiles(d) == {n \in Names : d[n].kind = "file"}

-----------------------------------------------------------------------------
(* Pure helpers of the code *)

\* sorted(...): ascending by name
RECURSIVE PySorted(_)
PySorted(S) ==
    IF S = {} THEN <<>>
    ELSE LET m == CHOOSE x \in S : \A y \in S : ~LexLess(y, x)
         IN  <<m>> \o PySorted(S \ {m})

\* a Python slice index, clamped to the sequence
SliceIndex(i, len) ==
    IF i < 0 THEN (IF i + len < 0 THEN 0 ELSE i + len)
    ELSE (IF i > len THEN len ELSE i)

\* seq[start:stop]
PySlice(seq, start, stop) ==
    SubSeq(seq, SliceIndex(start, Len(seq)) + 1, SliceIndex(stop, Len(seq)))

\* mutant: files[keep:], the newest files are deleted
CleanupSlice_KeepOldest(files, keep) == PySlice(files, keep, Len(files))

\* mutant: files[0:-keep+1], one file too many is deleted
CleanupSlice_OffByOne(files, keep) == PySlice(files, 0, 1 - keep)

\* mutant: files[0:keep], the sign of keep is lost
CleanupSlice_Positive(files, keep) == PySlice(files, 0, keep)

\* mutant: files[0:-keep-1], one file too many is kept
CleanupSlice_KeepOneMore(files, keep) == PySlice(files, 0, 0 - keep - 1)

\* files[0:-keep], the files cleanup deletes
CleanupSlice(files, keep) == PySlice(files, 0, 0 - keep)

Range(s) == {s[i] : i \in 1..Len(s)}

-----------------------------------------------------------------------------
(* Snapshot threads *)

Ops == {"snap_url", "snap_picam", "cleanup", "list_all", "get_next_path", "get_base_path"}
SnapOps == {"snap_url", "snap_picam"}

\* the modules the snapshot actions import
Modules == {"requests", "picamera"}
Requires(op) == IF op = "snap_url" THEN "requests" ELSE "picamera"

EmptyDir == [n \in Names |-> NoEntry]

\* what a directory holds: the kind of every entry
Kinds(d) == [n \in Names |-> d[n].kind]

IdleThread ==
    [pc |-> "idle", op |-> "none", keep |-> 0, path |-> <<>>, entries |-> {},
     accepted |-> {}, files |-> <<>>, fi |-> 0,
     \* history of the current call, read only by the properties
     failed |-> {}, deleted |-> {}, outcome |-> "none",
     captureFailed |-> FALSE, pruned |-> FALSE, opened |-> FALSE,
     created |-> FALSE]

Set(p, r) == thr' = [thr EXCEPT ![p] = r]

NoHistory ==
    [on |-> FALSE, dir |-> Kinds(EmptyDir), afterCleanup |-> FALSE, prevFailed |-> {},
     clock |-> FALSE, atCall |-> Kinds(EmptyDir), allocs |-> <<>>]

\* the history of the directory, where it is kept at all
Remember(d) == IF hist.on THEN [hist EXCEPT !.dir = Kinds(d)] ELSE hist

\* the directory as it is when an operation is entered
RememberCall(d) ==
    [hist EXCEPT !.dir = IF hist.on THEN Kinds(d) ELSE @,
                 !.atCall = IF hist.clock THEN Kinds(d) ELSE @]

\* a get_next_path has read the clock at t, in which second, and computed the
\* path
Allocated(t, path) ==
    IF hist.clock
    THEN [hist EXCEPT !.allocs = Append(@, [sec |-> t \div TicksPerSecond,
                                            path |-> path, written |-> FALSE])]
    ELSE hist

\* the file of the last get_next_path has been written to the end
MarkWritten ==
    IF hist.clock /\ hist.allocs # <<>>
    THEN [hist EXCEPT !.allocs[Len(hist.allocs)].written = TRUE]
    ELSE hist

\* an exception leaves the operation
Raise(t, exc) == [t EXCEPT !.pc = "returned", !.outcome = exc]
Done(t) == [t EXCEPT !.pc = "returned", !.outcome = "ok"]

FirstPc(op) ==
    CASE op = "snap_url" -> "get"
      [] op = "snap_picam" -> "cam"
      [] op = "cleanup" -> "keep"
      [] op = "list_all" -> "iterdir"
      [] op = "get_next_path" -> "now"
      [] op = "get_base_path" -> "base"

\* a thread enters one of the operations
Call(p) ==
    /\ thr[p].pc = "idle"
    /\ calls < MaxOps
    /\ calls' = calls + 1
    /\ \E op \in Ops :
          /\ op \in SnapOps => instances[op] = "ok"
          /\ Set(p, [IdleThread EXCEPT !.pc = FirstPc(op), !.op = op])
    /\ hist' = RememberCall(fs)
    /\ UNCHANGED <<fs, baseExists, snapshot_keep, snapshot_path, last_snapshot, modules, instances, eventVars>>

\* URLSnapshotAction.__init__: self.__url = url
URLSnapshotActionInit ==
    /\ instances["snap_url"] = "none"
    /\ instances' = [instances EXCEPT !["snap_url"] = "ok"]
    /\ UNCHANGED <<fs, baseExists, snapshot_keep, snapshot_path, last_snapshot, thr,
                   calls, modules, hist, eventVars>>

\* PicamSnapshotAction.__init__: import picamera
PicamSnapshotActionInit ==
    /\ instances["snap_picam"] = "none"
    /\ instances' = [instances EXCEPT !["snap_picam"] =
                        IF "picamera" \in modules THEN "ok" ELSE "ImportError"]
    /\ UNCHANGED <<fs, baseExists, snapshot_keep, snapshot_path, last_snapshot, thr,
                   calls, modules, hist, eventVars>>

\* URLSnapshotAction.__call__: import requests;
\* response = requests.get(url, stream=True)
RequestsGet(p) ==
    /\ thr[p].pc = "get"
    /\ IF "requests" \notin modules
       THEN Set(p, Raise(thr[p], "ImportError"))
       ELSE \/ Set(p, [thr[p] EXCEPT !.pc = "now"])
            \/ Set(p, Raise([thr[p] EXCEPT !.captureFailed = TRUE], "CaptureError"))
    /\ UNCHANGED <<fs, baseExists, snapshot_keep, snapshot_path, last_snapshot, hist, calls, modules, instances, eventVars>>

\* PicamSnapshotAction.__call__: import picamera;
\* with picamera.PiCamera() as cam
PiCameraOpen(p) ==
    /\ thr[p].pc = "cam"
    /\ IF "picamera" \notin modules
       THEN Set(p, Raise(thr[p], "ImportError"))
       ELSE \/ Set(p, [thr[p] EXCEPT !.pc = "now"])
            \/ Set(p, Raise([thr[p] EXCEPT !.captureFailed = TRUE], "CaptureError"))
    /\ UNCHANGED <<fs, baseExists, snapshot_keep, snapshot_path, last_snapshot, hist, calls, modules, instances, eventVars>>

\* mutant: path.mkdir(parents=True), without exist_ok
Mkdir_NoExistOk(exists) ==
    [raised |-> IF exists THEN "FileExistsError" ELSE "none", exists |-> TRUE]

\* path.mkdir(parents=True, exist_ok=True) on a directory that exists or not:
\* what it raises, and whether the directory exists afterwards
Mkdir(exists) == [raised |-> "none", exists |-> TRUE]

\* mutant: get_base_path without "if not path: raise ValueError"
BasePath_NoCheck(path, exists) == Mkdir(exists)

\* get_base_path: if not path: raise ValueError(...); path.mkdir(...)
BasePath(path, exists) ==
    IF path = "" THEN [raised |-> "ValueError", exists |-> exists] ELSE Mkdir(exists)

\* get_base_path as a top-level operation
GetBasePath(p) ==
    /\ thr[p].pc = "base"
    /\ LET r == BasePath(snapshot_path, baseExists)
           t == [thr[p] EXCEPT !.created = r.exists /\ ~baseExists]
       IN  /\ baseExists' = r.exists
           /\ Set(p, IF r.raised # "none" THEN Raise(t, r.raised) ELSE Done(t))
    /\ UNCHANGED <<fs, snapshot_keep, snapshot_path, last_snapshot, hist, calls, modules, instances, eventVars>>

\* get_next_path: path = get_base_path() / datetime.now().strftime(...);
\* datetime.now() is the local wall clock: it reads any time, later or (after
\* the clock was set back) earlier than the reading before
NextPathCompute(p) ==
    /\ thr[p].pc = "now"
    /\ LET r == BasePath(snapshot_path, baseExists)
           u == [thr[p] EXCEPT !.created = r.exists /\ ~baseExists]
       IN  /\ baseExists' = r.exists
           /\ IF r.raised # "none"
              THEN Set(p, Raise(u, r.raised)) /\ UNCHANGED hist
              ELSE \E t \in 0..LastTick :
                      /\ Set(p, [u EXCEPT !.pc = "setlast", !.path = Strftime(t)])
                      /\ hist' = Allocated(t, Strftime(t))
    /\ UNCHANGED <<fs, snapshot_keep, snapshot_path, last_snapshot, calls, modules, instances, eventVars>>

\* mutant: last_snapshot is set only while it is unset
NextPathRecord_FirstWins(p) ==
    /\ thr[p].pc = "setlast"
    /\ last_snapshot' = IF last_snapshot = <<>> THEN <<snapshot_path, thr[p].path>>
                                                ELSE last_snapshot
    /\ Set(p, CASE thr[p].op = "snap_url" -> [thr[p] EXCEPT !.pc = "open"]
                [] thr[p].op = "snap_picam" -> [thr[p] EXCEPT !.pc = "capture"]
                [] OTHER -> Done(thr[p]))
    /\ UNCHANGED <<fs, baseExists, snapshot_keep, snapshot_path, hist, calls, modules, instances, eventVars>>

\* get_next_path: config.set_value("last_snapshot", str(path)); return path
NextPathRecord(p) ==
    /\ thr[p].pc = "setlast"
    /\ last_snapshot' = <<snapshot_path, thr[p].path>>
    /\ Set(p, CASE thr[p].op = "snap_url" -> [thr[p] EXCEPT !.pc = "open"]
                [] thr[p].op = "snap_picam" -> [thr[p] EXCEPT !.pc = "capture"]
                [] OTHER -> Done(thr[p]))
    /\ UNCHANGED <<fs, baseExists, snapshot_keep, snapshot_path, hist, calls, modules, instances, eventVars>>

\* URLSnapshotAction.__call__: path.open("wb") creates or truncates the file
Open(p) ==
    /\ thr[p].pc = "open"
    /\ fs' = [fs EXCEPT ![thr[p].path] = NewFile(FALSE)]
    /\ Set(p, [thr[p] EXCEPT !.pc = "write", !.opened = TRUE])
    /\ UNCHANGED <<baseExists, snapshot_keep, snapshot_path, last_snapshot, hist, calls, modules, instances, eventVars>>

\* the directory after a writer has written its file to the end: an unlinked
\* file does not come back
Written(d, n) ==
    IF d[n].kind = "file" THEN [d EXCEPT ![n] = NewFile(TRUE)] ELSE d

\* mutant: a failed download takes last_snapshot back
Write_RollsBack(p) ==
    /\ thr[p].pc = "write"
    /\ \/ /\ fs' = Written(fs, thr[p].path)
          /\ Set(p, [thr[p] EXCEPT !.pc = "keep"])
          /\ hist' = MarkWritten
          /\ UNCHANGED last_snapshot
       \/ /\ UNCHANGED <<fs, hist>>
          /\ last_snapshot' = <<>>
          /\ Set(p, Raise([thr[p] EXCEPT !.captureFailed = TRUE], "CaptureError"))
    /\ UNCHANGED <<baseExists, snapshot_keep, snapshot_path, calls, modules, instances, eventVars>>

\* URLSnapshotAction.__call__: the iter_content loop, then the file is closed;
\* a failing download leaves the opened file behind and the exception propagates
Write(p) ==
    /\ thr[p].pc = "write"
    /\ \/ /\ fs' = Written(fs, thr[p].path)
          /\ Set(p, [thr[p] EXCEPT !.pc = "keep"])
          /\ hist' = MarkWritten
       \/ /\ UNCHANGED <<fs, hist>>
          /\ Set(p, Raise([thr[p] EXCEPT !.captureFailed = TRUE], "CaptureError"))
    /\ UNCHANGED <<baseExists, snapshot_keep, snapshot_path, last_snapshot, calls, modules, instances, eventVars>>

\* PicamSnapshotAction.__call__: cam.capture(path); the camera library writes
\* the file itself, a failing capture may or may not leave a file behind
Capture(p) ==
    /\ thr[p].pc = "capture"
    /\ \/ /\ fs' = [fs EXCEPT ![thr[p].path] = NewFile(TRUE)]
          /\ Set(p, [thr[p] EXCEPT !.pc = "keep", !.opened = TRUE])
          /\ hist' = MarkWritten
       \/ /\ fs' = [fs EXCEPT ![thr[p].path] = NewFile(FALSE)]
          /\ Set(p, Raise([thr[p] EXCEPT !.captureFailed = TRUE, !.opened = TRUE],
                          "CaptureError"))
          /\ UNCHANGED hist
       \/ /\ UNCHANGED <<fs, hist>>
          /\ Set(p, Raise([thr[p] EXCEPT !.captureFailed = TRUE], "CaptureError"))
    /\ UNCHANGED <<baseExists, snapshot_keep, snapshot_path, last_snapshot, calls, modules, instances, eventVars>>

\* mutant: cleanup without "if keep <= 0: return"
CleanupKeep_NoGuard(p) ==
    /\ thr[p].pc = "keep"
    /\ Set(p, [thr[p] EXCEPT !.keep = snapshot_keep, !.pc = "iterdir"])
    /\ hist' = Remember(fs)
    /\ UNCHANGED <<fs, baseExists, snapshot_keep, snapshot_path, last_snapshot, calls, modules, instances, eventVars>>

\* cleanup: keep = config.get_int("snapshot_keep"); if keep <= 0: return
CleanupKeep(p) ==
    /\ thr[p].pc = "keep"
    /\ LET t == [thr[p] EXCEPT !.keep = snapshot_keep]
       IN  IF t.keep <= 0
           THEN Set(p, Done(t))
           ELSE Set(p, [t EXCEPT !.pc = "iterdir"])
    /\ hist' = Remember(fs)
    /\ UNCHANGED <<fs, baseExists, snapshot_keep, snapshot_path, last_snapshot, calls, modules, instances, eventVars>>

\* list_all: cls.get_base_path().iterdir() reads the directory
IterDir(p) ==
    /\ thr[p].pc = "iterdir"
    /\ LET r == BasePath(snapshot_path, baseExists)
           t == [thr[p] EXCEPT !.created = r.exists /\ ~baseExists]
       IN  /\ baseExists' = r.exists
           /\ IF r.raised # "none"
              THEN Set(p, Raise(t, r.raised))
              ELSE Set(p, [t EXCEPT !.pc = "isfile", !.entries = Present(fs),
                                    !.accepted = {}])
    /\ UNCHANGED <<fs, snapshot_keep, snapshot_path, last_snapshot, hist, calls, modules, instances, eventVars>>

\* mutant: list_all without "if f.is_file()"
IsFile_NoFilter(p) ==
    /\ thr[p].pc = "isfile"
    /\ \E f \in thr[p].entries :
          Set(p, [thr[p] EXCEPT !.entries = @ \ {f}, !.accepted = @ \cup {f}])
    /\ UNCHANGED <<fs, baseExists, snapshot_keep, snapshot_path, last_snapshot, calls, hist, modules, instances, eventVars>>

\* list_all: f.is_file() of one entry the directory read produced
IsFile(p) ==
    /\ thr[p].pc = "isfile"
    /\ \E f \in thr[p].entries :
          Set(p, [thr[p] EXCEPT
                    !.entries = @ \ {f},
                    !.accepted = IF fs[f].kind = "file" THEN @ \cup {f} ELSE @])
    /\ UNCHANGED <<fs, baseExists, snapshot_keep, snapshot_path, last_snapshot, hist, calls, modules, instances, eventVars>>

\* list_all: return sorted(...); in cleanup the result is "files"
ListSorted(p) ==
    /\ thr[p].pc = "isfile"
    /\ thr[p].entries = {}
    /\ LET t == [thr[p] EXCEPT !.files = PySorted(thr[p].accepted)]
       IN  IF t.op = "list_all"
           THEN Set(p, Done(t))
           ELSE Set(p, [t EXCEPT !.pc = "unlink", !.fi = 1, !.pruned = TRUE])
    /\ UNCHANGED <<fs, baseExists, snapshot_keep, snapshot_path, last_snapshot, hist, calls, modules, instances, eventVars>>

\* fi.unlink() succeeds
UnlinkOk(p, f) ==
    /\ fs[f].kind = "file"
    /\ fs' = [fs EXCEPT ![f] = NoEntry]
    /\ Set(p, [thr[p] EXCEPT !.fi = @ + 1, !.deleted = @ \cup {f}])

\* mutant: cleanup without the try/except around unlink
UnlinkError_Propagates(p, f) ==
    /\ UNCHANGED fs
    /\ Set(p, Raise([thr[p] EXCEPT !.failed = @ \cup {f}], "OSError"))

\* fi.unlink() raises OSError (the file is gone, or the deletion is refused);
\* cleanup logs it and goes on with the next file
UnlinkError(p, f) ==
    /\ UNCHANGED fs
    /\ Set(p, [thr[p] EXCEPT !.fi = @ + 1, !.failed = @ \cup {f}])

\* cleanup: one turn of "for fi in files[0:-keep]"
Unlink(p) ==
    /\ thr[p].pc = "unlink"
    /\ LET old == CleanupSlice(thr[p].files, thr[p].keep)
       IN  /\ thr[p].fi <= Len(old)
           /\ \/ UnlinkOk(p, old[thr[p].fi])
              \/ UnlinkError(p, old[thr[p].fi])
    /\ UNCHANGED <<baseExists, snapshot_keep, snapshot_path, last_snapshot, hist, calls, modules, instances, eventVars>>

\* cleanup: the loop is exhausted, cleanup (and the action) returns
CleanupReturn(p) ==
    /\ thr[p].pc = "unlink"
    /\ thr[p].fi > Len(CleanupSlice(thr[p].files, thr[p].keep))
    /\ Set(p, Done(thr[p]))
    /\ UNCHANGED <<fs, baseExists, snapshot_keep, snapshot_path, last_snapshot, hist, calls, modules, instances, eventVars>>

\* the caller has the result (or the exception); the thread is free again
Return(p) ==
    /\ thr[p].pc = "returned"
    /\ Set(p, IdleThread)
    /\ hist' = IF hist.on
               THEN [hist EXCEPT
                        !.afterCleanup = thr[p].op = "cleanup" /\ thr[p].outcome = "ok",
                        !.prevFailed = thr[p].failed]
               ELSE hist
    /\ UNCHANGED <<fs, baseExists, snapshot_keep, snapshot_path, last_snapshot, calls, modules, instances, eventVars>>

-----------------------------------------------------------------------------
(* Events: fire_event of sipphone/from_pjsua2 and the event handler *)

\* the event names the callers fire: "x" and "x_S"
BaseNames == {<<120>>, <<120, 95, 83>>}

\* mutant: the suffix is "_s"
ShadowName_Lower(event_name) == event_name \o <<95, 115>>

\* f"{event_name}_S"
ShadowName(event_name) == event_name \o <<95, 83>>

EVENT_SOURCE == "sipphone.pjsua"

RemoteUris == {"None", "sip:a"}

\* a dict, as the set of its items
Dict(items) == [type |-> "dict", items |-> items]

\* mutant: extra is left None when there is no remote_uri
Extra_None(remote_uri) ==
    IF remote_uri # "None" THEN Dict({<<"remote_uri", remote_uri>>})
                           ELSE [type |-> "NoneType", items |-> {}]

\* extra = {"remote_uri": remote_uri} if remote_uri is not None else {}
Extra(remote_uri) ==
    IF remote_uri # "None" THEN Dict({<<"remote_uri", remote_uri>>}) ELSE Dict({})

\* the handlers registered for an event, in registration order
Subscribers(name) == [h \in 1..NumHandlers |-> h]

IdleCaller(n) ==
    [pc |-> "idle", n |-> n, event_name |-> <<>>, async_only |-> FALSE,
     remote_uri |-> "None", extra |-> Dict({}), name |-> <<>>, i |-> 0,
     outcome |-> "none"]

\* the call a caller is in: its own id and the number of the call
CallOf(c) == <<c, ev[c].n>>

\* event_handler.fire_event: each subscribed handler gets a thread of its own,
\* the call returns at once
EhFireEvent(call, name, source, extra) ==
    /\ fired' = Append(fired, [call |-> call, name |-> name, mode |-> "async",
                               source |-> source, extra |-> extra])
    /\ tasks' = tasks \cup {[call |-> call, name |-> name, handler |-> Subscribers(name)[k]]
                              : k \in 1..Len(Subscribers(name))}
    /\ UNCHANGED ran

\* event_handler.fire_event_sync: the handlers run one after the other in the
\* calling thread; this is the entry, SyncHandler is one handler
EhFireEventSync(call, name, source, extra) ==
    /\ fired' = Append(fired, [call |-> call, name |-> name, mode |-> "sync",
                               source |-> source, extra |-> extra])
    /\ UNCHANGED <<tasks, ran>>

\* fire_event is entered: the arguments, eh and extra
FireEventEnter(c) ==
    /\ ev[c].pc = "idle"
    /\ ev[c].n < MaxCalls
    /\ \E event_name \in BaseNames, async_only \in BOOLEAN, remote_uri \in RemoteUris :
          ev' = [ev EXCEPT ![c] =
                    [IdleCaller(ev[c].n + 1) EXCEPT
                        !.pc = "fire", !.event_name = event_name,
                        !.async_only = async_only, !.remote_uri = remote_uri,
                        !.extra = Extra(remote_uri)]]
    /\ UNCHANGED <<tasks, fired, ran>>
    /\ UNCHANGED snapVars

\* eh.fire_event(event_name, EVENT_SOURCE, extra=extra)
FireAsync(c) ==
    /\ ev[c].pc = "fire"
    /\ EhFireEvent(CallOf(c), ev[c].event_name, EVENT_SOURCE, ev[c].extra)
    /\ ev' = [ev EXCEPT ![c].pc = "shadow"]
    /\ UNCHANGED snapVars

\* mutant: the shadow event is fired with eh.fire_event, like the base event
FireShadow_Async(c) ==
    /\ ev[c].pc = "shadow"
    /\ IF ev[c].async_only
       THEN UNCHANGED <<tasks, fired, ran>>
       ELSE EhFireEvent(CallOf(c), ShadowName(ev[c].event_name), EVENT_SOURCE, ev[c].extra)
    /\ ev' = [ev EXCEPT ![c].pc = "returned", ![c].outcome = "ok"]
    /\ UNCHANGED snapVars

\* if not async_only: eh.fire_event_sync(f"{event_name}_S", EVENT_SOURCE, extra=extra)
FireShadow(c) ==
    /\ ev[c].pc = "shadow"
    /\ IF ev[c].async_only
       THEN /\ ev' = [ev EXCEPT ![c].pc = "returned", ![c].outcome = "ok"]
            /\ UNCHANGED <<tasks, fired, ran>>
       ELSE /\ EhFireEventSync(CallOf(c), ShadowName(ev[c].event_name), EVENT_SOURCE,
                               ev[c].extra)
            /\ ev' = [ev EXCEPT ![c].pc = "sync", ![c].i = 1,
                                ![c].name = ShadowName(ev[c].event_name)]
    /\ UNCHANGED snapVars

\* mutant: fire_event_sync lets the failure of a handler escape
SyncHandler_Propagates(c) ==
    /\ ev[c].pc = "sync"
    /\ ev[c].i <= Len(Subscribers(ev[c].name))
    /\ \E result \in {"ok", "failed"} :
          /\ ran' = ran \cup {[call |-> CallOf(c), name |-> ev[c].name,
                               handler |-> Subscribers(ev[c].name)[ev[c].i],
                               thread |-> <<"caller", c>>, result |-> result]}
          /\ ev' = IF result = "ok"
                   THEN [ev EXCEPT ![c].i = @ + 1]
                   ELSE [ev EXCEPT ![c].pc = "returned", ![c].outcome = "HandlerError"]
    /\ UNCHANGED <<tasks, fired>>
    /\ UNCHANGED snapVars

\* fire_event_sync runs the next handler in the caller's thread; a failure of
\* the handler is caught and logged
SyncHandler(c) ==
    /\ ev[c].pc = "sync"
    /\ ev[c].i <= Len(Subscribers(ev[c].name))
    /\ \E result \in {"ok", "failed"} :
          ran' = ran \cup {[call |-> CallOf(c), name |-> ev[c].name,
                            handler |-> Subscribers(ev[c].name)[ev[c].i],
                            thread |-> <<"caller", c>>, result |-> result]}
    /\ ev' = [ev EXCEPT ![c].i = @ + 1]
    /\ UNCHANGED <<tasks, fired>>
    /\ UNCHANGED snapVars

\* fire_event_sync returns, and with it fire_event
SyncReturn(c) ==
    /\ ev[c].pc = "sync"
    /\ ev[c].i > Len(Subscribers(ev[c].name))
    /\ ev' = [ev EXCEPT ![c].pc = "returned", ![c].outcome = "ok"]
    /\ UNCHANGED <<tasks, fired, ran>>
    /\ UNCHANGED snapVars

\* the caller goes on after fire_event; the logs of the call end here
FireEventReturn(c) ==
    /\ ev[c].pc = "returned"
    /\ ev' = [ev EXCEPT ![c] = IdleCaller(ev[c].n)]
    /\ fired' = SelectSeq(fired, LAMBDA f : f.call # CallOf(c))
    /\ ran' = {r \in ran : r.call # CallOf(c)}
    /\ UNCHANGED tasks
    /\ UNCHANGED snapVars

\* is the call of fire_event still going on
InCall(call) == \E c \in Callers : ev[c].pc # "idle" /\ CallOf(c) = call

\* a handler thread of the asynchronous fire runs its handler and ends; a
\* failure of the handler is caught and logged
RunTask ==
    /\ \E t \in tasks, result \in {"ok", "failed"} :
          /\ tasks' = tasks \ {t}
          /\ ran' = IF InCall(t.call)
                    THEN ran \cup {[call |-> t.call, name |-> t.name, handler |-> t.handler,
                                    thread |-> <<"task", t.call, t.handler>>,
                                    result |-> result]}
                    ELSE ran
    /\ UNCHANGED <<ev, fired>>
    /\ UNCHANGED snapVars

-----------------------------------------------------------------------------
(* Specifications *)

InitEvents ==
    /\ ev = [c \in Callers |-> IdleCaller(0)]
    /\ tasks = {}
    /\ fired = <<>>
    /\ ran = {}

\* a directory as the threads may find it: snapshots of earlier seconds, and
\* other files and subdirectories
InitSnapshots ==
    /\ snapshot_keep \in (0 - 1)..MaxKeep
    /\ snapshot_path \in {"", "/snap"}
    /\ baseExists \in BOOLEAN
    /\ fs \in [Names -> {NoEntry, OldFile, DirEntry}]
    /\ \A n \in TimeNames : fs[n] # DirEntry
    /\ snapshot_path = "" => ~baseExists
    /\ ~baseExists => fs = EmptyDir
    /\ last_snapshot = <<>>
    /\ thr = [p \in Threads |-> IdleThread]
    /\ calls = 0
    /\ modules = Modules
    /\ instances = [op \in SnapOps |-> "ok"]
    /\ hist \in {[NoHistory EXCEPT !.on = TRUE, !.dir = Kinds(fs)], NoHistory}

ThreadStep(p) ==
    \/ Call(p)
    \/ RequestsGet(p)
    \/ PiCameraOpen(p)
    \/ GetBasePath(p)
    \/ NextPathCompute(p)
    \/ NextPathRecord(p)
    \/ Open(p)
    \/ Write(p)
    \/ Capture(p)
    \/ CleanupKeep(p)
    \/ IterDir(p)
    \/ IsFile(p)
    \/ ListSorted(p)
    \/ Unlink(p)
    \/ CleanupReturn(p)
    \/ Return(p)

\* one thread, the operations one after the other
InitSeq == InitSnapshots /\ InitEvents /\ hist.on

NextSeq ==
    ThreadStep(1)

SpecSeq == InitSeq /\ [][NextSeq]_vars

\* several threads, their steps interleaved
\* the directory, where it exists, holds only old files, no subdirectory
Init ==
    /\ InitSnapshots
    /\ InitEvents
    /\ snapshot_path # ""
    /\ ~hist.on
    /\ snapshot_keep >= 0
    /\ \A n \in Names : fs[n] = NoEntry \/ (n \in OtherNames /\ fs[n] = OldFile)

Next == \E p \in Threads : ThreadStep(p)

Spec == Init /\ [][Next]_vars

\* several threads that call get_base_path, get_next_path and list_all, their
\* steps interleaved; the directory exists or not
InitPath == Init

\* a thread enters get_base_path, get_next_path or list_all
CallPath(p) ==
    /\ Call(p)
    /\ thr'[p].op \in {"get_base_path", "get_next_path", "list_all"}

PathStep(p) ==
    \/ CallPath(p)
    \/ GetBasePath(p)
    \/ NextPathCompute(p)
    \/ NextPathRecord(p)
    \/ IterDir(p)
    \/ IsFile(p)
    \/ ListSorted(p)
    \/ Return(p)

NextPath == \E p \in Threads : PathStep(p)

SpecPath == InitPath /\ [][NextPath]_vars

\* one thread that captures, one capture after the other, at any clock
\* readings, in a directory that holds any files
InitClock ==
    /\ InitEvents
    /\ snapshot_keep \in 0..MaxKeep
    /\ snapshot_path = "/snap"
    /\ baseExists = TRUE
    /\ fs \in [Names -> {NoEntry, OldFile}]
    /\ last_snapshot = <<>>
    /\ thr = [p \in Threads |-> IdleThread]
    /\ calls = 0
    /\ modules = Modules
    /\ instances = [op \in SnapOps |-> "ok"]
    /\ hist = [NoHistory EXCEPT !.clock = TRUE, !.atCall = Kinds(fs)]

\* a thread enters a capture action, or get_next_path alone
CallCapture(p) ==
    /\ Call(p)
    /\ thr'[p].op \in SnapOps \cup {"get_next_path"}

NextClock ==
    \/ CallCapture(1)
    \/ RequestsGet(1)
    \/ PiCameraOpen(1)
    \/ NextPathCompute(1)
    \/ NextPathRecord(1)
    \/ Open(1)
    \/ Write(1)
    \/ Capture(1)
    \/ CleanupKeep(1)
    \/ IterDir(1)
    \/ IsFile(1)
    \/ ListSorted(1)
    \/ Unlink(1)
    \/ CleanupReturn(1)
    \/ Return(1)

SpecClock == InitClock /\ [][NextClock]_vars

\* startup: the actions are constructed, with the modules the installation
\* has, and then invoked by one thread
InitConstruct ==
    /\ InitEvents
    /\ snapshot_keep = 1
    /\ snapshot_path = "/snap"
    /\ baseExists = TRUE
    /\ fs = EmptyDir
    /\ last_snapshot = <<>>
    /\ thr = [p \in Threads |-> IdleThread]
    /\ calls = 0
    /\ modules \in SUBSET Modules
    /\ instances = [op \in SnapOps |-> "none"]
    /\ hist = NoHistory

NextConstruct ==
    \/ URLSnapshotActionInit
    \/ PicamSnapshotActionInit
    \/ ThreadStep(1)

SpecConstruct == InitConstruct /\ [][NextConstruct]_vars

\* the callers of fire_event and the handler threads
InitEvent ==
    /\ InitEvents
    /\ snapshot_keep = 0
    /\ snapshot_path = ""
    /\ baseExists = FALSE
    /\ fs = EmptyDir
    /\ last_snapshot = <<>>
    /\ thr = [p \in Threads |-> IdleThread]
    /\ calls = 0
    /\ modules = Modules
    /\ instances = [op \in SnapOps |-> "ok"]
    /\ hist = NoHistory

CallerStep(c) ==
    \/ FireEventEnter(c)
    \/ FireAsync(c)
    \/ FireShadow(c)
    \/ SyncHandler(c)
    \/ SyncReturn(c)
    \/ FireEventReturn(c)

NextEvent ==
    \/ \E c \in Callers : CallerStep(c)
    \/ RunTask

SpecEvent == InitEvent /\ [][NextEvent]_vars

-----------------------------------------------------------------------------
(* Properties of cleanup and list_all *)

\* the regular files of the remembered directory
FilesThen == {n \in Names : hist.dir[n] = "file"}

\* the n members of S with the greatest names
GreatestN(S, n) == {f \in S : Cardinality({g \in S : LexLess(f, g)}) < n}

Returned(p) == thr[p].pc = "returned"

\* C1: with keep = N > 0 and M > N regular files in the directory, a cleanup
\* in which every deletion succeeds leaves exactly the N files with the
\* greatest names and deletes the other M - N; nothing else changes.
C1_KeepsGreatestN ==
    \A p \in Threads :
        ( /\ Returned(p)
          /\ thr[p].pruned
          /\ thr[p].failed = {}
          /\ Cardinality(FilesThen) > snapshot_keep )
        => /\ RegularFiles(fs) = GreatestN(FilesThen, snapshot_keep)
           /\ thr[p].deleted = FilesThen \ GreatestN(FilesThen, snapshot_keep)
           /\ Cardinality(thr[p].deleted) = Cardinality(FilesThen) - snapshot_keep
           /\ \A n \in Names : hist.dir[n] = "dir" <=> fs[n].kind = "dir"

\* keep = 2 and four files: the two oldest are deleted, the two newest remain
C1_Witness ==
    \E p \in Threads :
        /\ Returned(p) /\ thr[p].pruned /\ thr[p].failed = {}
        /\ snapshot_keep = 2
        /\ Cardinality(FilesThen) = 4
        /\ Cardinality(RegularFiles(fs)) = 2

\* C2: with keep <= 0 cleanup deletes nothing and attempts no deletion: it
\* never lists the directory, and the directory is as it was when it returns.
C2_NoPruneWhenKeepNotPositive ==
    \A p \in Threads :
        snapshot_keep <= 0 =>
            /\ ~thr[p].pruned
            /\ thr[p].deleted = {} /\ thr[p].failed = {}
            /\ thr[p].op \in SnapOps \cup {"cleanup"} => thr[p].pc \notin {"iterdir", "isfile", "unlink"}
            /\ (Returned(p) /\ thr[p].op = "cleanup") =>
                   (thr[p].outcome = "ok" /\ Kinds(fs) = hist.dir)

C2_Witness ==
    \E p \in Threads :
        /\ Returned(p) /\ thr[p].op = "cleanup"
        /\ snapshot_keep <= 0
        /\ Cardinality(RegularFiles(fs)) >= 2

\* the files a cleanup means to delete: those of its listing that are not
\* among the keep greatest
Candidates(p) ==
    Range(thr[p].files) \ GreatestN(Range(thr[p].files), thr[p].keep)

\* C3: a failing deletion does not stop cleanup: when it returns it has tried
\* every file it meant to delete, and it returns normally.
C3_EveryCandidateAttempted ==
    \A p \in Threads :
        (Returned(p) /\ thr[p].pruned) =>
            /\ thr[p].outcome = "ok"
            /\ thr[p].failed \cup thr[p].deleted = Candidates(p)

\* a deletion failed and a later file of the same cleanup was still deleted
C3_Witness ==
    \E p \in Threads :
        /\ Returned(p) /\ thr[p].pruned
        /\ \E f \in thr[p].failed, g \in thr[p].deleted : LexLess(f, g)

\* C4: no step of any thread deletes a file and leaves fewer than keep regular
\* files in the directory, however captures and cleanups interleave.
C4_NeverPrunesBelowKeep ==
    [][ (\E n \in Names : fs[n].kind = "file" /\ fs'[n].kind = "none")
            => Cardinality(RegularFiles(fs')) >= snapshot_keep ]_vars

\* two cleanups run at once and both have deleted files
C4_Witness ==
    \E p, q \in Threads :
        /\ p # q
        /\ thr[p].pc = "unlink" /\ thr[q].pc = "unlink"
        /\ thr[p].deleted # {} /\ thr[q].deleted # {}
        /\ thr[q].failed # {}

\* C5: a cleanup that finds at most keep regular files deletes nothing; and a
\* cleanup right after a cleanup changes nothing, the files that could not be
\* deleted the first time being refused again.
C5_CleanupIdempotent ==
    \A p \in Threads :
        (Returned(p) /\ thr[p].op = "cleanup" /\ thr[p].outcome = "ok") =>
            /\ (snapshot_keep > 0 /\ Cardinality(FilesThen) <= snapshot_keep) =>
                   (thr[p].deleted = {} /\ thr[p].failed = {} /\ Kinds(fs) = hist.dir)
            /\ (hist.afterCleanup /\ hist.prevFailed \subseteq thr[p].failed) =>
                   (thr[p].deleted = {} /\ Kinds(fs) = hist.dir)

\* the second of two cleanups, the first of which deleted one file and was
\* refused another
C5_Witness ==
    \E p \in Threads :
        /\ Returned(p) /\ thr[p].op = "cleanup" /\ thr[p].pruned
        /\ hist.afterCleanup
        /\ hist.prevFailed # {} /\ hist.prevFailed \subseteq thr[p].failed
        /\ \E n \in TimeNames : hist.dir[n] = "none"
        /\ Cardinality(RegularFiles(fs)) = snapshot_keep + 1

\* strictly ascending by name
Ascending(seq) == \A i, j \in 1..Len(seq) : i < j => LexLess(seq[i], seq[j])

\* C6: list_all returns the regular files of the directory as it is at the
\* call, each once, ascending by name, and no subdirectory.
C6_ListAllSortedFiles ==
    \A p \in Threads :
        (Returned(p) /\ thr[p].op = "list_all" /\ thr[p].outcome = "ok") =>
            /\ Ascending(thr[p].files)
            /\ Range(thr[p].files) = FilesThen
            /\ Range(thr[p].files) = RegularFiles(fs)
            /\ \A n \in Range(thr[p].files) : fs[n].kind # "dir"

\* a second call, on a directory with a subdirectory and three files
C6_Witness ==
    \E p \in Threads :
        /\ Returned(p) /\ thr[p].op = "list_all"
        /\ calls = 2
        /\ Len(thr[p].files) = 3
        /\ \E n \in Names : fs[n].kind = "dir"

\* C10 (for snap_url): when the capture fails the action raises, cleanup is
\* skipped, and the directory holds no file it did not hold before the call.
C10_FailedCaptureLeavesNoFile ==
    \A p \in Threads :
        (Returned(p) /\ thr[p].op = "snap_url" /\ thr[p].captureFailed) =>
            /\ thr[p].outcome = "CaptureError"
            /\ ~thr[p].pruned
            /\ \A n \in Names : hist.dir[n] = "none" => fs[n].kind = "none"

-----------------------------------------------------------------------------
(* Properties of get_base_path and get_next_path *)

\* C11: with a path set, get_base_path never fails and the directory exists
\* when it returns, whether this call created it or found it, also when
\* several threads call it at once; so the directory exists whenever a thread
\* holds a path from get_next_path or a listing from list_all.  A directory
\* that exists stays, and get_base_path on it changes nothing.
C11_BaseExistsAfterResolve ==
    /\ [](\A p \in Threads :
            /\ thr[p].outcome \in {"none", "ok", "CaptureError"}
            /\ (Returned(p) /\ thr[p].op \in {"get_base_path", "get_next_path", "list_all"})
                   => (thr[p].outcome = "ok" /\ baseExists)
            /\ thr[p].path # <<>> => baseExists
            /\ thr[p].pc \in {"isfile", "unlink"} => baseExists
            /\ thr[p].created => baseExists)
    /\ [][ /\ baseExists => baseExists'
           /\ \A p \in Threads :
                 (baseExists /\ thr[p].pc = "base" /\ thr'[p].pc # "base")
                     => (fs' = fs /\ ~thr'[p].created) ]_vars

\* two threads have called get_base_path at once: one created the directory,
\* the other found it
C11_Witness ==
    \E p, q \in Threads :
        /\ Returned(p) /\ thr[p].op = "get_base_path" /\ thr[p].created
        /\ Returned(q) /\ thr[q].op = "get_base_path" /\ ~thr[q].created
        /\ thr[p].outcome = "ok" /\ thr[q].outcome = "ok"

\* C12: with snapshot_path empty, get_base_path raises ValueError and creates
\* nothing: the directory does not come to exist, get_next_path, list_all and
\* a cleanup with keep > 0 raise too, no path is produced, last_snapshot is
\* not set and no file is deleted.
C12_EmptyPathFails ==
    snapshot_path = "" =>
        /\ ~baseExists
        /\ fs = EmptyDir
        /\ last_snapshot = <<>>
        /\ \A p \in Threads :
              /\ thr[p].path = <<>> /\ thr[p].deleted = {} /\ ~thr[p].created
              /\ thr[p].outcome # "ok" =>
                     thr[p].outcome \in {"none", "ValueError", "CaptureError"}
              /\ (Returned(p) /\ thr[p].op \in {"get_base_path", "get_next_path", "list_all"})
                     => thr[p].outcome = "ValueError"
              /\ (Returned(p) /\ thr[p].op = "cleanup" /\ snapshot_keep > 0)
                     => thr[p].outcome = "ValueError"
              /\ (Returned(p) /\ thr[p].op \in SnapOps) => thr[p].outcome # "ok"

\* after a get_base_path that failed, a cleanup with keep > 0 has failed too
C12_Witness ==
    \E p \in Threads :
        /\ snapshot_path = "" /\ snapshot_keep > 0
        /\ Returned(p) /\ thr[p].op = "cleanup" /\ thr[p].outcome = "ValueError"
        /\ calls = 2

\* has the thread's get_next_path set last_snapshot in this step
Records(p) == thr[p].pc = "setlast" /\ thr'[p].pc # "setlast"

\* C14: every get_next_path sets last_snapshot to the path it returns, and
\* nothing else changes last_snapshot: however the calls interleave, the slot
\* holds the path of the call that wrote last.  The path is the base
\* directory and a file name without a separator.
C14_LastWriteWins ==
    /\ [][ /\ \A p \in Threads :
                 Records(p) => /\ last_snapshot' = <<snapshot_path, thr[p].path>>
                               /\ thr'[p].path = thr[p].path
           /\ last_snapshot' # last_snapshot => \E p \in Threads : Records(p) ]_vars
    /\ [](\A p \in Threads :
            thr[p].path # <<>> => /\ thr[p].path \in TimeNames
                                  /\ 47 \notin Range(thr[p].path))

\* two calls have both set last_snapshot; it holds the path of the second,
\* which is not the path of the first
C14_Witness ==
    \E p, q \in Threads :
        /\ p # q
        /\ thr[p].path # <<>> /\ thr[p].pc # "setlast"
        /\ thr[q].path # <<>> /\ thr[q].pc # "setlast"
        /\ thr[p].path # thr[q].path
        /\ last_snapshot = <<snapshot_path, thr[q].path>>
        /\ Returned(p) /\ Returned(q)

\* the captures whose artifact is in the directory: the get_next_path calls
\* whose file was written and neither overwritten by a later one nor deleted
Captured ==
    {i \in 1..Len(hist.allocs) :
        /\ hist.allocs[i].written
        /\ fs[hist.allocs[i].path].kind = "file"
        /\ \A k \in (i + 1)..Len(hist.allocs) :
              hist.allocs[k].written => hist.allocs[k].path # hist.allocs[i].path}

\* C16: of two artifacts in the directory the one captured earlier has the
\* smaller name, whatever the clock read at the captures.
C16_NameOrderIsCaptureOrder ==
    \A i, j \in Captured :
        i < j => LexLess(hist.allocs[i].path, hist.allocs[j].path)

FilesAtCall == {n \in Names : hist.atCall[n] = "file"}

\* C17: get_next_path calls in the same second return the same path; a capture
\* whose path holds the file of the capture before it, made in the same
\* second, overwrites that file: it returns normally and leaves no file the
\* directory did not hold when it was called, and without pruning exactly
\* the files it held, the one at the path complete.
C17_SameSecondOverwrites ==
    /\ \A i, j \in 1..Len(hist.allocs) :
          hist.allocs[i].sec = hist.allocs[j].sec
              => hist.allocs[i].path = hist.allocs[j].path
    /\ \A p \in Threads :
          ( /\ Returned(p) /\ thr[p].op \in SnapOps /\ thr[p].path # <<>>
            /\ Len(hist.allocs) >= 2
            /\ hist.allocs[Len(hist.allocs)].written
            /\ hist.allocs[Len(hist.allocs) - 1].written
            /\ hist.allocs[Len(hist.allocs) - 1].sec = hist.allocs[Len(hist.allocs)].sec
            /\ hist.atCall[hist.allocs[Len(hist.allocs) - 1].path] = "file" )
          => /\ thr[p].outcome = "ok"
             /\ RegularFiles(fs) \subseteq FilesAtCall
             /\ snapshot_keep <= 0 =>
                    /\ RegularFiles(fs) = FilesAtCall
                    /\ fs[thr[p].path] = NewFile(TRUE)

\* two captures in one second, without pruning: the second has returned and
\* the directory holds the one file
C17_Witness ==
    \E p \in Threads :
        /\ Returned(p) /\ thr[p].op = "snap_url" /\ thr[p].outcome = "ok"
        /\ snapshot_keep = 0
        /\ Len(hist.allocs) = 2
        /\ hist.allocs[1].written /\ hist.allocs[2].written
        /\ hist.allocs[1].sec = hist.allocs[2].sec
        /\ RegularFiles(fs) = {thr[p].path}

\* every operation entered so far has returned and its thread has not gone on
AllReturned == Cardinality({p \in Threads : Returned(p)}) = calls

\* C18: with keep = N > 0, when every capture action that was started has
\* returned from its cleanup and no deletion has failed, the directory holds
\* at most N regular files, whether the actions ran one after the other or
\* at once.
C18_BoundedRetention ==
    ( /\ snapshot_keep > 0
      /\ AllReturned
      /\ \E p \in Threads : Returned(p) /\ thr[p].op \in SnapOps
      /\ \A p \in Threads :
            Returned(p) => (thr[p].outcome = "ok" /\ thr[p].failed = {}) )
    => Cardinality(RegularFiles(fs)) <= snapshot_keep

\* two capture actions have run at once, each has deleted a file, and the
\* directory holds keep files
C18_Witness ==
    /\ snapshot_keep > 0
    /\ AllReturned
    /\ \A p \in Threads :
          /\ Returned(p) /\ thr[p].op \in SnapOps
          /\ thr[p].outcome = "ok" /\ thr[p].failed = {} /\ thr[p].deleted # {}
    /\ Cardinality(RegularFiles(fs)) = snapshot_keep

\* C19: with keep >= 1 the cleanup of a capture action does not delete the
\* file the action has just written.
C19_PruneSparesOwnArtifact ==
    \A p \in Threads :
        (thr[p].op \in SnapOps /\ snapshot_keep >= 1) => thr[p].path \notin thr[p].deleted

\* C20: last_snapshot holds the allocated path from before the file is opened;
\* when the capture fails after get_next_path has returned, last_snapshot
\* still holds the path, while the path holds the file the failed download
\* opened, and no complete file unless one was there before the call.
C20_LastSnapshotNotRolledBack ==
    \A p \in Threads :
        /\ thr[p].opened => last_snapshot = <<snapshot_path, thr[p].path>>
        /\ (Returned(p) /\ thr[p].captureFailed /\ thr[p].path # <<>>) =>
              /\ last_snapshot = <<snapshot_path, thr[p].path>>
              /\ (thr[p].op = "snap_url" /\ thr[p].opened) => fs[thr[p].path] = NewFile(FALSE)
              /\ hist.atCall[thr[p].path] = "none" => fs[thr[p].path] # NewFile(TRUE)

\* a second capture has failed in the download: last_snapshot names its path,
\* not the path of the first, and the file there is incomplete
C20_Witness ==
    \E p \in Threads :
        /\ Returned(p) /\ thr[p].op = "snap_url" /\ thr[p].captureFailed /\ thr[p].opened
        /\ Len(hist.allocs) = 2 /\ hist.allocs[1].path # hist.allocs[2].path
        /\ last_snapshot = <<snapshot_path, hist.allocs[2].path>>
        /\ fs[hist.allocs[2].path] = NewFile(FALSE)

\* C13: a snapshot action whose module cannot be imported is not constructed,
\* so no invocation of a constructed action fails with ImportError.
C13_ProbeAtConstruction ==
    /\ \A op \in SnapOps : instances[op] = "ok" => Requires(op) \in modules
    /\ \A p \in Threads :
          (Returned(p) /\ thr[p].op \in SnapOps) => thr[p].outcome # "ImportError"

-----------------------------------------------------------------------------
(* Properties of fire_event *)

\* the fires the event handler was asked for by one call of fire_event
FiresOf(call, mode) ==
    {i \in 1..Len(fired) : fired[i].call = call /\ fired[i].mode = mode}

\* s is b followed by "_S"
IsShadowOf(s, b) ==
    /\ Len(s) = Len(b) + 2
    /\ \A i \in 1..Len(b) : s[i] = b[i]
    /\ s[Len(b) + 1] = 95
    /\ s[Len(b) + 2] = 83

\* C7: a call of fire_event fires the base name asynchronously, once, and,
\* unless async_only, the base name plus "_S" synchronously, once; with
\* async_only nothing else is fired and no handler runs for another name.
C7_FiresBaseAndShadow ==
    \A c \in Callers :
        ev[c].pc = "returned" =>
            /\ Cardinality(FiresOf(CallOf(c), "async")) = 1
            /\ \A i \in FiresOf(CallOf(c), "async") : fired[i].name = ev[c].event_name
            /\ IF ev[c].async_only
               THEN /\ FiresOf(CallOf(c), "sync") = {}
                    /\ \A r \in ran : r.call = CallOf(c) => r.name = ev[c].event_name
               ELSE /\ Cardinality(FiresOf(CallOf(c), "sync")) = 1
                    /\ \A i \in FiresOf(CallOf(c), "sync") :
                          IsShadowOf(fired[i].name, ev[c].event_name)

\* a call with async_only, for the event "x_S", after an earlier call
C7_Witness ==
    \E c \in Callers :
        /\ ev[c].pc = "returned" /\ ev[c].async_only
        /\ ev[c].n = 2
        /\ ev[c].event_name = <<120, 95, 83>>
        /\ \E r \in ran : r.call = CallOf(c)

\* the executions of the shadow handlers of the call a caller is in
ShadowRuns(c) ==
    {r \in ran : r.call = CallOf(c) /\ IsShadowOf(r.name, ev[c].event_name)}

\* C8: when fire_event returns without async_only, every handler of the shadow
\* event has run, in the caller's own thread; no thread is ever started for a
\* shadow handler; with async_only the caller never waits for a handler.
C8_ShadowRunsInCaller ==
    /\ \A c \in Callers :
          /\ (ev[c].pc = "returned" /\ ~ev[c].async_only) =>
                \A k \in 1..Len(Subscribers(ShadowName(ev[c].event_name))) :
                    \E r \in ShadowRuns(c) :
                        r.handler = Subscribers(ShadowName(ev[c].event_name))[k]
          /\ ev[c].async_only => ev[c].pc # "sync"
    /\ \A i \in 1..Len(fired) :
          fired[i].mode = "sync" =>
              /\ \A t \in tasks : ~(t.call = fired[i].call /\ t.name = fired[i].name)
              /\ \A r \in ran :
                    (r.call = fired[i].call /\ r.name = fired[i].name) =>
                        r.thread = <<"caller", r.call[1]>>

\* fire_event has returned, the shadow handlers are done, and handler threads
\* of the asynchronous fire are still to run
C8_Witness ==
    \E c \in Callers :
        /\ ev[c].pc = "returned" /\ ~ev[c].async_only
        /\ Cardinality(ShadowRuns(c)) = NumHandlers
        /\ \E t \in tasks : t.call = CallOf(c)

\* C9: a failing handler stops nothing: fire_event returns normally, the
\* shadow event is fired and each of its handlers runs whatever the others
\* did, and every handler of an asynchronous fire has run or is still to run.
C9_HandlerFailureContained ==
    /\ \A c \in Callers :
          /\ ev[c].outcome \in {"none", "ok"}
          /\ ev[c].pc = "returned" => ev[c].outcome = "ok"
          /\ (ev[c].pc = "returned" /\ ~ev[c].async_only) =>
                /\ FiresOf(CallOf(c), "sync") # {}
                /\ \A k \in 1..NumHandlers :
                      \E r \in ShadowRuns(c) : r.handler = k /\ r.thread = <<"caller", c>>
    /\ \A i \in 1..Len(fired) :
          fired[i].mode = "async" =>
              \A k \in 1..NumHandlers :
                  \/ \E t \in tasks : t.call = fired[i].call /\ t.handler = k
                  \/ \E r \in ran : /\ r.call = fired[i].call /\ r.handler = k
                                    /\ r.name = fired[i].name
                                    /\ r.thread = <<"task", r.call, k>>

\* the first handler failed in the asynchronous and in the synchronous fire,
\* the second ran in both
C9_Witness ==
    \E c \in Callers :
        /\ ev[c].pc = "returned" /\ ~ev[c].async_only
        /\ \E r \in ran : /\ r.call = CallOf(c) /\ r.handler = 1 /\ r.result = "failed"
                          /\ r.name = ev[c].event_name
        /\ \E r \in ran : /\ r.call = CallOf(c) /\ r.handler = 2 /\ r.result = "ok"
                          /\ r.name = ev[c].event_name
        /\ \E r \in ShadowRuns(c) : r.handler = 1 /\ r.result = "failed"
        /\ \E r \in ShadowRuns(c) : r.handler = 2 /\ r.result = "ok"

\* C15: the extra of every fire is a dict, never None: the empty dict when
\* fire_event got no remote_uri, else the dict of the one key remote_uri; the
\* asynchronous and the synchronous fire of one call get the same dict.
C15_ExtraAlwaysMapping ==
    /\ \A i \in 1..Len(fired) : fired[i].extra.type = "dict"
    /\ \A c \in Callers :
          \A i \in FiresOf(CallOf(c), "async") \cup FiresOf(CallOf(c), "sync") :
              fired[i].extra.items =
                  IF ev[c].remote_uri = "None" THEN {}
                  ELSE {<<"remote_uri", ev[c].remote_uri>>}
    /\ \A i, j \in 1..Len(fired) :
          fired[i].call = fired[j].call => fired[i].extra = fired[j].extra

\* a call without remote_uri has fired both events with the empty dict
C15_Witness ==
    \E c \in Callers :
        /\ ev[c].pc = "returned" /\ ~ev[c].async_only /\ ev[c].remote_uri = "None"
        /\ \E i \in FiresOf(CallOf(c), "async"), j \in FiresOf(CallOf(c), "sync") :
              fired[i].extra = Dict({}) /\ fired[j].extra = Dict({})

====
